---- MODULE Spec2Model ----
(***************************************************************************)
(* A model of the as_variant! macro (src/lib.rs).                          *)
(*                                                                         *)
(* The macro has four rules, tried in source order on the tokens of an     *)
(* invocation.  The two rules with a subject expand to a `match` of two    *)
(* arms; the two rules without a subject expand to a closure whose body    *)
(* invokes the macro again with the closure's parameter as subject.        *)
(* The model expands an invocation rule by rule and then runs the          *)
(* expanded `match` step by step on an enum value: the subject is          *)
(* evaluated, the alternatives of the arm's pattern are tested from left   *)
(* to right, the guard is evaluated for an alternative that matches, the   *)
(* result expression is evaluated when the arm is taken, and the final     *)
(* `_` arm gives None.                                                     *)
(*                                                                         *)
(* A behaviour runs two invocations on the same value one after the other  *)
(* (an invocation and a counterpart of it: the same selector in the other  *)
(* of the subject/closure forms, or the match-arm longhand of a variant    *)
(* list) and keeps the outcome of each.                                    *)
(***************************************************************************)
EXTENDS Naturals, Integers, Sequences, FiniteSets

\* ---- bounds of the model ----
MaxVal == 1          \* payloads are 0..MaxVal
MaxAlts == 2         \* `|`-separated alternatives of a pattern / variant list

\* ---- the enum the macro is used on ----
\* U is a unit variant, A and B are newtype variants, P has two fields.
Tags == {"U", "A", "B", "P"}
NewtypeTags == {"A", "B"}

Arity(t) == CASE t = "U" -> 0 [] t = "A" -> 1 [] t = "B" -> 1 [] t = "P" -> 2

Payload == 0..MaxVal

Values ==
    {[tag |-> t, fields |-> f] : t \in {"U"}, f \in {<<>>}}
    \cup {[tag |-> t, fields |-> <<a>>] : t \in NewtypeTags, a \in Payload}
    \cup {[tag |-> "P", fields |-> <<a, b>>] : a \in Payload, b \in Payload}

\* ---- Option ----
None == [some |-> FALSE, val |-> 0]
Some(x) == [some |-> TRUE, val |-> x]

\* ---- the selectors of an invocation ----
\* One alternative of a pattern: the variant it names and the field it binds
\* to the name x (bind = 0: no binding, the fields are `_`).
Alts == {a \in [tag : Tags, bind : 0..2] : a.bind <= Arity(a.tag)}

Binds(p) == \A j \in 1..Len(p) : p[j].bind > 0
BindsNothing(p) == \A j \in 1..Len(p) : p[j].bind = 0

\* every alternative of a pattern binds the same names
Patterns ==
    {p \in UNION {[1..n -> Alts] : n \in 1..MaxAlts} : Binds(p) \/ BindsNothing(p)}

NoGuard == [kind |-> "none", lim |-> 0]
Guards ==
    {NoGuard, [kind |-> "true", lim |-> 0], [kind |-> "false", lim |-> 0]}
    \cup {[kind |-> "lt", lim |-> n] : n \in 1..MaxVal}

Inners == {"x", "succ", "const"}

VariantLists == UNION {[1..n -> NewtypeTags] : n \in 1..MaxAlts}

ArmOk(i) ==
    /\ (i.guard.kind = "lt" => Binds(i.pattern))
    /\ (i.inner \in {"x", "succ"} => Binds(i.pattern))

ArmInvocations ==
    {i \in [subject : BOOLEAN, form : {"arm"}, variants : {<<>>},
            pattern : Patterns, guard : Guards, inner : Inners,
            comma : BOOLEAN] : ArmOk(i)}

VariantInvocations ==
    [subject : BOOLEAN, form : {"variants"}, variants : VariantLists,
     pattern : {<<>>}, guard : {NoGuard}, inner : {"x"}, comma : {FALSE}]

Invocations == ArmInvocations \cup VariantInvocations

\* ---- the tokens of an invocation ----
\* "E" is an expression, "V" a path (also a pattern and an expression),
\* "P" a pattern with a field list (read as a call by the expression parser).
RECURSIVE Join(_)
Join(s) ==
    IF Len(s) = 0 THEN <<>>
    ELSE IF Len(s) = 1 THEN <<s[1]>>
    ELSE <<s[1], "|">> \o Join(Tail(s))

AltToken(a) == IF a.tag = "U" THEN "V" ELSE "P"

SelectorTokens(i) ==
    IF i.form = "variants"
    THEN Join([j \in 1..Len(i.variants) |-> "V"])
    ELSE Join([j \in 1..Len(i.pattern) |-> AltToken(i.pattern[j])])
         \o (IF i.guard.kind = "none" THEN <<>> ELSE <<"if", "E">>)
         \o <<"=>", "E">>
         \o (IF i.comma THEN <<",">> ELSE <<>>)

Tokens(i) == (IF i.subject THEN <<"E", ",">> ELSE <<>>) \o SelectorTokens(i)

\* ---- the fragment parsers of the matchers ----
\* Each gives the position after the fragment, or 0 when there is none.
At(t, p) == IF p >= 1 /\ p <= Len(t) THEN t[p] ELSE "eof"

RECURSIVE Chain(_, _, _)
Chain(t, p, ok) ==
    IF p = 0 \/ At(t, p) \notin ok THEN 0
    ELSE IF At(t, p + 1) = "|" THEN Chain(t, p + 2, ok)
    ELSE p + 1

ParseExpr(t, p) == Chain(t, p, {"E", "V", "P"})
ParsePat(t, p) == Chain(t, p, {"V", "P"})
\* $( $variants:path )|*
ParsePaths(t, p) == IF p = 0 THEN 0 ELSE IF At(t, p) = "V" THEN Chain(t, p, {"V"}) ELSE p
Lit(t, p, tok) == IF p # 0 /\ At(t, p) = tok THEN p + 1 ELSE 0
Opt(t, p, tok) == IF p # 0 /\ At(t, p) = tok THEN p + 1 ELSE p
End(t, p) == p = Len(t) + 1

\* $pattern:pat $( if $guard:expr )? => $inner:expr $(,)?
ParseArm(t, p) ==
    LET p1 == ParsePat(t, p)
        p2 == IF At(t, p1) = "if" THEN ParseExpr(t, p1 + 1) ELSE p1
        p3 == ParseExpr(t, Lit(t, p2, "=>"))
    IN  Opt(t, p3, ",")

\* ---- the rules of the macro, in source order ----
NumRules == 4

RuleAtSwapped(n) ==
    CASE n = 1 -> "arm_subject"
      [] n = 2 -> "variants_subject"
      [] n = 3 -> "arm_closure"
      [] n = 4 -> "variants_closure"

RuleAt(n) ==
    CASE n = 1 -> "arm_subject"
      [] n = 2 -> "variants_subject"
      [] n = 3 -> "variants_closure"
      [] n = 4 -> "arm_closure"

Matches(r, t) ==
    CASE r = "arm_subject" -> End(t, ParseArm(t, Lit(t, ParseExpr(t, 1), ",")))
      [] r = "variants_subject" -> End(t, ParsePaths(t, Lit(t, ParseExpr(t, 1), ",")))
      [] r = "variants_closure" -> End(t, ParsePaths(t, 1))
      [] r = "arm_closure" -> End(t, ParseArm(t, 1))

IsClosureRule(r) == r \in {"variants_closure", "arm_closure"}

\* ---- the expansions ----
NoMatch == [pattern |-> <<>>, guard |-> NoGuard, inner |-> "x"]

\* match $enum { $pattern $( if $guard )? => Some($inner), _ => None }
ExpandArmNoGuard(i) == [pattern |-> i.pattern, guard |-> NoGuard, inner |-> i.inner]

ExpandArm(i) == [pattern |-> i.pattern, guard |-> i.guard, inner |-> i.inner]

\* match $enum { $( $variants(inner) )|* => Some(inner), _ => None }
ExpandVariantsFirstOnly(i) ==
    [pattern |-> <<[tag |-> i.variants[1], bind |-> 1]>>,
     guard |-> NoGuard, inner |-> "x"]

ExpandVariants(i) ==
    [pattern |-> [j \in 1..Len(i.variants) |-> [tag |-> i.variants[j], bind |-> 1]],
     guard |-> NoGuard, inner |-> "x"]

\* |_enum| $crate::as_variant!(_enum, ...): the invocation in the closure body
ReinvokeNoGuard(i) == [i EXCEPT !.subject = TRUE, !.comma = FALSE, !.guard = NoGuard]

Reinvoke(i) == [i EXCEPT !.subject = TRUE, !.comma = FALSE]

Expand(r, i) == IF r = "arm_subject" THEN ExpandArm(i) ELSE ExpandVariants(i)

\* ---- the meaning of the parts of an arm ----
AltMatches(a, val) == a.tag = val.tag

Unbound == 0 - 1
Bind(a, val) == IF a.bind = 0 THEN Unbound ELSE val.fields[a.bind]

GuardVal(g, b) ==
    CASE g.kind = "true" -> TRUE
      [] g.kind = "false" -> FALSE
      [] g.kind = "lt" -> b < g.lim
      [] g.kind = "none" -> TRUE

InnerVal(e, b) ==
    CASE e = "x" -> b
      [] e = "succ" -> b + 1
      [] e = "const" -> 7

\* ---- the invocations run in one behaviour ----
\* The match-arm longhand of a variant list: V1(x) | ... | Vn(x) => x
Longhand(i) ==
    [subject |-> i.subject, form |-> "arm", variants |-> <<>>,
     pattern |-> [j \in 1..Len(i.variants) |-> [tag |-> i.variants[j], bind |-> 1]],
     guard |-> NoGuard, inner |-> "x", comma |-> FALSE]

OtherForm(i) == [i EXCEPT !.subject = ~i.subject]

Counterparts(i) ==
    {OtherForm(i)} \cup (IF i.form = "variants" THEN {Longhand(i)} ELSE {})

Count(s, e) == Cardinality({j \in 1..Len(s) : s[j] = e})

VARIABLES
    queue,      \* the invocations to run, in order
    v,          \* the enum value the subject evaluates to
    idx,        \* the invocation of queue that is running
    cur,        \* the invocation the expander is matching
    rule,       \* the number of the rule the expander tries next
    tried,      \* the rules tried for queue[idx], in order
    closure,    \* queue[idx] expanded to a closure
    m,          \* the expanded match
    pc,         \* "expand", "closure", "subject", "test", "guard", "inner", "done"
    k,          \* the alternative of the pattern under test
    x,          \* the value bound by the alternative that matched
    trace,      \* the evaluations of the running invocation, in order
    result,     \* the Option the running invocation gave
    outcomes    \* the outcomes of the finished invocations

vars == <<queue, v, idx, cur, rule, tried, closure, m, pc, k, x, trace, result, outcomes>>

Init ==
    /\ \E i \in Invocations : \E c \in Counterparts(i) : queue = <<i, c>>
    /\ v \in Values
    /\ idx = 1
    /\ cur = queue[1]
    /\ rule = 1
    /\ tried = <<>>
    /\ closure = FALSE
    /\ m = NoMatch
    /\ pc = "expand"
    /\ k = 0
    /\ x = Unbound
    /\ trace = <<>>
    /\ result = None
    /\ outcomes = <<>>

\* ---- expansion: the rules are tried in order, the first that matches wins ----
RuleFails ==
    /\ pc = "expand"
    /\ rule <= NumRules
    /\ ~Matches(RuleAt(rule), Tokens(cur))
    /\ tried' = Append(tried, RuleAt(rule))
    /\ rule' = rule + 1
    /\ UNCHANGED <<queue, v, idx, cur, closure, m, pc, k, x, trace, result, outcomes>>

\* lines 151-156: the expansion is a closure that invokes the macro again
ClosureRuleMatches ==
    /\ pc = "expand"
    /\ rule <= NumRules
    /\ Matches(RuleAt(rule), Tokens(cur))
    /\ IsClosureRule(RuleAt(rule))
    /\ tried' = Append(tried, RuleAt(rule))
    /\ closure' = TRUE
    /\ cur' = Reinvoke(cur)
    /\ rule' = 1
    /\ UNCHANGED <<queue, v, idx, m, pc, k, x, trace, result, outcomes>>

\* lines 139-150: the expansion is a match
MatchRuleMatches ==
    /\ pc = "expand"
    /\ rule <= NumRules
    /\ Matches(RuleAt(rule), Tokens(cur))
    /\ ~IsClosureRule(RuleAt(rule))
    /\ tried' = Append(tried, RuleAt(rule))
    /\ m' = Expand(RuleAt(rule), cur)
    /\ pc' = IF closure THEN "closure" ELSE "subject"
    /\ UNCHANGED <<queue, v, idx, cur, rule, closure, k, x, trace, result, outcomes>>

\* ---- run time ----
\* the closure is called with the value: its body runs
ApplyClosure ==
    /\ pc = "closure"
    /\ pc' = "subject"
    /\ UNCHANGED <<queue, v, idx, cur, rule, tried, closure, m, k, x, trace, result, outcomes>>

\* match $enum { ... }: the scrutinee is evaluated
EvalSubjectTwice ==
    /\ pc = "subject"
    /\ trace' = trace \o <<"subject", "subject">>
    /\ k' = 1
    /\ pc' = "test"
    /\ UNCHANGED <<queue, v, idx, cur, rule, tried, closure, m, x, result, outcomes>>

EvalSubject ==
    /\ pc = "subject"
    /\ trace' = Append(trace, "subject")
    /\ k' = 1
    /\ pc' = "test"
    /\ UNCHANGED <<queue, v, idx, cur, rule, tried, closure, m, x, result, outcomes>>

\* the k-th alternative of the first arm matches the value
AltHit ==
    /\ pc = "test"
    /\ k <= Len(m.pattern)
    /\ AltMatches(m.pattern[k], v)
    /\ x' = Bind(m.pattern[k], v)
    /\ trace' = Append(trace, "hit")
    /\ pc' = IF m.guard.kind = "none" THEN "inner" ELSE "guard"
    /\ UNCHANGED <<queue, v, idx, cur, rule, tried, closure, m, k, result, outcomes>>

\* the k-th alternative does not match: the next one is tested
AltMissEvalsGuard ==
    /\ pc = "test"
    /\ k <= Len(m.pattern)
    /\ ~AltMatches(m.pattern[k], v)
    /\ trace' = IF m.guard.kind = "none" THEN Append(trace, "miss")
                ELSE trace \o <<"miss", "guard">>
    /\ k' = k + 1
    /\ UNCHANGED <<queue, v, idx, cur, rule, tried, closure, m, pc, x, result, outcomes>>

AltMiss ==
    /\ pc = "test"
    /\ k <= Len(m.pattern)
    /\ ~AltMatches(m.pattern[k], v)
    /\ trace' = Append(trace, "miss")
    /\ k' = k + 1
    /\ UNCHANGED <<queue, v, idx, cur, rule, tried, closure, m, pc, x, result, outcomes>>

\* the guard holds: the arm is taken
GuardTrue ==
    /\ pc = "guard"
    /\ GuardVal(m.guard, x)
    /\ trace' = Append(trace, "guard")
    /\ pc' = "inner"
    /\ UNCHANGED <<queue, v, idx, cur, rule, tried, closure, m, k, x, result, outcomes>>

\* the guard fails: matching goes on with the next alternative
GuardFalseLeavesArm ==
    /\ pc = "guard"
    /\ ~GuardVal(m.guard, x)
    /\ trace' = Append(trace, "guard")
    /\ k' = Len(m.pattern) + 1
    /\ pc' = "test"
    /\ UNCHANGED <<queue, v, idx, cur, rule, tried, closure, m, x, result, outcomes>>

GuardFalseEvalsInner ==
    /\ pc = "guard"
    /\ ~GuardVal(m.guard, x)
    /\ trace' = trace \o <<"guard", "inner">>
    /\ k' = k + 1
    /\ pc' = "test"
    /\ UNCHANGED <<queue, v, idx, cur, rule, tried, closure, m, x, result, outcomes>>

GuardFalse ==
    /\ pc = "guard"
    /\ ~GuardVal(m.guard, x)
    /\ trace' = Append(trace, "guard")
    /\ k' = k + 1
    /\ pc' = "test"
    /\ UNCHANGED <<queue, v, idx, cur, rule, tried, closure, m, x, result, outcomes>>

\* => Some($inner)
EvalInner ==
    /\ pc = "inner"
    /\ trace' = Append(trace, "inner")
    /\ result' = Some(InnerVal(m.inner, x))
    /\ pc' = "done"
    /\ UNCHANGED <<queue, v, idx, cur, rule, tried, closure, m, k, x, outcomes>>

\* _ => None
WildcardArmMissing ==
    /\ pc = "test"
    /\ k > Len(m.pattern)
    /\ pc' = "unmatched"
    /\ UNCHANGED <<queue, v, idx, cur, rule, tried, closure, m, k, x, trace, result, outcomes>>

WildcardArm ==
    /\ pc = "test"
    /\ k > Len(m.pattern)
    /\ result' = None
    /\ pc' = "done"
    /\ UNCHANGED <<queue, v, idx, cur, rule, tried, closure, m, k, x, trace, outcomes>>

Outcome ==
    [result |-> result,
     subjects |-> Count(trace, "subject"),
     guards |-> Count(trace, "guard"),
     inners |-> Count(trace, "inner")]

\* the next invocation of the queue is run on the same value
RunNext ==
    /\ pc = "done"
    /\ idx < Len(queue)
    /\ outcomes' = Append(outcomes, Outcome)
    /\ idx' = idx + 1
    /\ cur' = queue[idx + 1]
    /\ rule' = 1
    /\ tried' = <<>>
    /\ closure' = FALSE
    /\ m' = NoMatch
    /\ pc' = "expand"
    /\ k' = 0
    /\ x' = Unbound
    /\ trace' = <<>>
    /\ result' = None
    /\ UNCHANGED <<queue, v>>

Next ==
    \/ RuleFails
    \/ ClosureRuleMatches
    \/ MatchRuleMatches
    \/ ApplyClosure
    \/ EvalSubject
    \/ AltHit
    \/ AltMiss
    \/ GuardTrue
    \/ GuardFalse
    \/ EvalInner
    \/ WildcardArm
    \/ RunNext

Spec == Init /\ [][Next]_vars

TypeOK ==
    /\ pc \in {"expand", "closure", "subject", "test", "guard", "inner", "done"}
    /\ rule \in 1..NumRules
    /\ result.some \in BOOLEAN
\* ---- the properties ----
inv == queue[idx]
Done == pc = "done"
HasGuard(i) == i.guard.kind # "none"

\* the alternatives of pattern p that the value matches structurally
MatchingAlts(p, val) == {j \in 1..Len(p) : p[j].tag = val.tag}
\* ... and whose guard holds under the alternative's binding
AcceptedAlts(i, val) ==
    {j \in MatchingAlts(i.pattern, val) :
        \/ i.guard.kind \in {"none", "true"}
        \/ i.guard.kind = "lt" /\ i.pattern[j].bind > 0
                               /\ val.fields[i.pattern[j].bind] < i.guard.lim}
Least(S) == CHOOSE j \in S : \A h \in S : j <= h
ValueOf(e, i, val, j) ==
    CASE e = "x" -> val.fields[i.pattern[j].bind]
      [] e = "succ" -> val.fields[i.pattern[j].bind] + 1
      [] e = "const" -> 7

\* C1: as_variant!(v, V1 | ... | Vn) is Some(the single field of v) when the
\* active variant of v is one of V1..Vn, and None for every other v.
C1_VariantList ==
    (Done /\ inv.subject /\ inv.form = "variants") =>
        result = IF \E j \in 1..Len(inv.variants) : inv.variants[j] = v.tag
                 THEN Some(v.fields[1]) ELSE None

C1_Witness ==
    /\ Done /\ inv.subject /\ inv.form = "variants"
    /\ Len(inv.variants) = 2 /\ inv.variants[1] # v.tag /\ inv.variants[2] = v.tag
    /\ result.some /\ result.val = 1

\* C2: as_variant!(v, p if g => e) is Some(e under the bindings of p) exactly
\* when v matches p and the guard, if there is one, holds under the bindings;
\* it is None when the pattern fails or the guard is false.
C2_MatchArm ==
    (Done /\ inv.subject /\ inv.form = "arm") =>
        result = IF AcceptedAlts(inv, v) = {} THEN None
                 ELSE Some(ValueOf(inv.inner, inv, v, Least(AcceptedAlts(inv, v))))

C2_Witness ==
    /\ Done /\ inv.subject /\ inv.form = "arm" /\ inv.guard.kind = "lt"
    /\ MatchingAlts(inv.pattern, v) # {}
    /\ AcceptedAlts(inv, v) = {}
    /\ result = None

\* C3: a guard is never evaluated when the subject does not match the pattern:
\* every evaluation of the guard comes right after a successful structural
\* match in the same invocation.
C3_GuardAfterMatch ==
    /\ \A j \in 1..Len(trace) : trace[j] = "guard" => (j > 1 /\ trace[j - 1] = "hit")
    /\ (MatchingAlts(m.pattern, v) = {} => Count(trace, "guard") = 0)

C3_Witness ==
    /\ Done /\ inv.form = "arm" /\ HasGuard(inv)
    /\ MatchingAlts(inv.pattern, v) = {}
    /\ Count(trace, "miss") = Len(inv.pattern)

\* C4 (as stated): whenever the pattern of a guarded match arm matches the
\* subject, the guard is evaluated exactly once in the invocation.
C4_GuardExactlyOnce ==
    (Done /\ inv.form = "arm" /\ HasGuard(inv) /\ MatchingAlts(inv.pattern, v) # {}) =>
        Count(trace, "guard") = 1

\* C4 (amended): the guard is evaluated once for each alternative that matches
\* the subject, from left to right, up to and including the first one under
\* whose bindings it holds: at least once, and exactly once when only one
\* alternative matches or the guard holds for the first that does.
C4_GuardOncePerMatchingAlt ==
    (Done /\ inv.form = "arm" /\ HasGuard(inv) /\ MatchingAlts(inv.pattern, v) # {}) =>
        LET M == MatchingAlts(inv.pattern, v)
            A == AcceptedAlts(inv, v)
            n == IF A = {} THEN Cardinality(M)
                 ELSE Cardinality({j \in M : j <= Least(A)})
        IN  /\ Count(trace, "guard") = n
            /\ n >= 1
            /\ ((Cardinality(M) = 1 \/ Least(M) \in A) => n = 1)

C4_Witness ==
    /\ Done /\ inv.form = "arm" /\ HasGuard(inv)
    /\ Cardinality(MatchingAlts(inv.pattern, v)) = 2
    /\ Count(trace, "guard") = 2

\* C5: an invocation with a subject evaluates the subject exactly once,
\* whatever the outcome and whatever the guard.
C5_SubjectOnce ==
    /\ Count(trace, "subject") <= 1
    /\ (inv.subject /\ pc \in {"test", "guard", "inner", "done"}) => Count(trace, "subject") = 1

C5_Witness ==
    /\ Done /\ inv.subject /\ HasGuard(inv) /\ result = None
    /\ Count(trace, "guard") >= 1 /\ Count(trace, "subject") = 1

\* C6: the closure as_variant!(S) applied to v gives the result of
\* as_variant!(v, S), with as many evaluations of the guard and of the result
\* expression; making the closure evaluates neither.
C6_ClosureEquivalence ==
    /\ (pc \in {"expand", "closure"} => (Count(trace, "guard") = 0 /\ Count(trace, "inner") = 0))
    /\ (pc # "expand" => (closure <=> ~inv.subject))
    /\ (Done /\ idx = 2 /\ queue[2] = OtherForm(queue[1])) =>
           /\ result = outcomes[1].result
           /\ Count(trace, "guard") = outcomes[1].guards
           /\ Count(trace, "inner") = outcomes[1].inners

C6_Witness ==
    /\ Done /\ idx = 2 /\ queue[2] = OtherForm(queue[1]) /\ closure
    /\ HasGuard(inv) /\ Count(trace, "guard") = 1 /\ ~result.some

\* the steps an invocation has left are bounded by Rank
SelLen(i) == IF i.form = "variants" THEN Len(i.variants) ELSE Len(i.pattern)
RunRank ==
    CASE pc = "done" -> 0
      [] pc = "inner" -> 3 * (Len(m.pattern) + 1 - k)
      [] pc = "guard" -> 3 * (Len(m.pattern) + 1 - k) + 1
      [] pc = "test" -> 3 * (Len(m.pattern) + 1 - k) + 2
      [] pc = "subject" -> 3 * (Len(m.pattern) + 1)
      [] pc = "closure" -> 3 * (Len(m.pattern) + 1) + 1
      [] pc = "expand" -> 3 * (SelLen(cur) + 1) + 2
                          + (IF closure THEN 0 ELSE NumRules + 1)
                          + (NumRules + 1 - rule)
      [] OTHER -> 0
Rank == (Len(queue) - idx) * (3 * (MaxAlts + 1) + 2 * (NumRules + 1) + 3) + RunRank

\* C7: every invocation ends in Some(_) or None: each step brings it closer
\* to its outcome, the match has a final arm that gives None when no
\* alternative is taken, and there is no third outcome.
C7_Shape ==
    /\ pc \in {"expand", "closure", "subject", "test", "guard", "inner", "done"}
    /\ (pc = "expand" => rule <= NumRules)
    /\ (pc = "test" /\ k > Len(m.pattern) => ENABLED WildcardArm)
    /\ (Done => \/ result = None
                \/ result.some /\ result.val \in 0..(MaxVal + 7))
    /\ (Done /\ ~result.some => k > Len(m.pattern))
    /\ Rank >= 0

C7_Total == []C7_Shape /\ [][Rank' < Rank]_vars

C7_Witness ==
    /\ Done /\ closure /\ result = None /\ k > Len(m.pattern) /\ v.tag = "U"

\* C8: as_variant!(v, V1 | ... | Vn) gives the result of the match arm
\* as_variant!(v, V1(x) | ... | Vn(x) => x).
C8_ShorthandOfArm ==
    (Done /\ idx = 2 /\ queue[1].form = "variants" /\ queue[2] = Longhand(queue[1])) =>
        result = outcomes[1].result

C8_Witness ==
    /\ Done /\ idx = 2 /\ queue[1].form = "variants" /\ queue[2] = Longhand(queue[1])
    /\ Len(queue[1].variants) = 2 /\ queue[1].variants[2] = v.tag
    /\ queue[1].variants[1] # v.tag
    /\ result.some /\ outcomes[1].result = result

Before(s, a, b) ==
    \A j \in 1..Len(s) : s[j] = b => \E h \in 1..(j - 1) : s[h] = a

\* C9 (as stated): without a subject, the match-arm rule is attempted before
\* the variant-list rule, and the variant-list rule is used only after the
\* match-arm rule failed.
C9_ArmRuleFirst ==
    ~inv.subject => Before(tried, "arm_closure", "variants_closure")

\* C9 (amended): without a subject, the variant-list rule is attempted before
\* the match-arm rule, and the match-arm rule is used only after the
\* variant-list rule failed to match.
C9_VariantsRuleFirst ==
    ~inv.subject =>
        /\ Before(tried, "variants_closure", "arm_closure")
        /\ (closure /\ inv.form = "arm" =>
                \E j \in 1..(Len(tried) - 1) :
                    tried[j] = "variants_closure" /\ tried[j + 1] = "arm_closure")
        /\ (closure /\ inv.form = "variants" => Count(tried, "arm_closure") = 0)

C9_Witness ==
    /\ ~inv.subject /\ closure /\ inv.form = "arm" /\ pc = "closure"
    /\ AltToken(inv.pattern[1]) = "V"
    /\ Count(tried, "variants_closure") = 1 /\ Count(tried, "arm_closure") = 1

\* C10: a match-arm invocation evaluates the subject, then tests the pattern,
\* then evaluates the guard (if any), then the result expression; the result
\* expression is evaluated once when the outcome is Some and never when it is
\* None.
C10_Order ==
    inv.form = "arm" =>
        /\ \A j \in 1..Len(trace) :
              /\ (trace[j] = "subject") = (j = 1)
              /\ trace[j] = "guard" => trace[j - 1] = "hit"
              /\ trace[j] = "inner" =>
                    /\ j = Len(trace)
                    /\ trace[j - 1] = IF HasGuard(inv) THEN "guard" ELSE "hit"
        /\ Count(trace, "inner") <= 1
        /\ (Done => (result.some <=> Count(trace, "inner") = 1))

C10_Witness ==
    /\ Done /\ inv.form = "arm" /\ inv.guard.kind = "lt" /\ result.some
    /\ trace = <<"subject", "miss", "hit", "guard", "inner">>
====
